---- MODULE Spec2Model ----
(***************************************************************************)
(* Model of the bot monitor of src/index.js (the program that starts at    *)
(* line 303): the per-record status state machine (checkBot), the serial   *)
(* sweep (checkAll) with its re-entrancy flag, the report publisher        *)
(* (updateStatus) with its durable id file, and process restart.           *)
(*                                                                         *)
(* An async function runs without interruption up to its next await of a   *)
(* network request.  Each action below is one such run: the timer callback *)
(* up to the first request, or the resumption of a suspended checkAll      *)
(* invocation by the outcome of the request it waits for, up to the next   *)
(* request or to the end of the invocation.                                *)
(***************************************************************************)
EXTENDS Integers, Sequences, FiniteSets, TLC

----------------------------------------------------------------------------
(* Bounds of the exploration *)

MaxTicks == 3       \* timer callbacks explored
MaxRestarts == 1    \* process restarts explored

(* Program constants *)

CHECK_EVERY_MS == 60000
RECHECK_AFTER_DEPLOY_MS == 600000
REQUEST_TIMEOUT_MS == 8000
FAIL_THRESHOLD == 2

(* Environment values drawn by the actions *)

\* the roster: the positions of bot1, bot2 in BOTS
BotIds == {1, 2}
NBots == Cardinality(BotIds)
\* whole intervals elapsed between two timer callbacks (setInterval fires no
\* earlier than the interval; a suspended host delivers the callback late).
\* Date.now() moves with the timer: the time a request takes shows as the
\* timer callbacks that fire while the invocation waits for it.
TickDelays == {1, 10}
\* status codes of a response: the edges of 200 <= code < 400
StatusCodes == {199, 200, 399, 400}
\* Date.now() - started of a response
Durations == {0, 4000}
\* message ids the Discord API returns
Ids == {1, 2}
Null == 0

----------------------------------------------------------------------------
VARIABLES
    env,           \* process.env: [keys: the bot<N> entries in the order
                   \* Object.keys lists them, next: the one the startup
                   \* loop reads next]
    BOTS,          \* the roster: BotIds -> Service Record
    checking,      \* the re-entrancy flag
    statusMessageId,  \* globalState.statusMessageId
    statusFile,    \* the file STATUS_FILE: [exists, content]
    stored,        \* the id of the last writeFileSync that succeeded
    remediated,    \* per record: calls of deploy since its last successful
                   \* probe (since its creation if none)
    clock,         \* Date.now()
    booted,        \* startLoop has run in this process
    frames,        \* suspended checkAll invocations, oldest first
    ev,            \* the handler that ran last, with its input
    ticks,         \* timer callbacks so far
    restarts       \* restarts so far

vars == <<env, BOTS, checking, statusMessageId, statusFile, stored,
          remediated, clock, booted, frames, ev, ticks, restarts>>

----------------------------------------------------------------------------
(* parseBotEnv: the record a valid bot<N> entry yields *)
parseBotEnv(key) ==
    [id |-> key, status |-> "unknown", lastDeployAt |-> 0, lastCheckAt |-> 0,
     lastPingMs |-> 0, failCount |-> 0]

(* lines 340-346: one pass of the startup loop over Object.keys(process.env);
   an entry whose value parseBotEnv rejects (lines 324, 326) is skipped, a
   valid one is pushed *)
pushBot(roster, entry) ==
    IF entry.valid THEN Append(roster, parseBotEnv(entry.n)) ELSE roster

(* lines 340-346: the roster the whole loop builds from the entries keys *)
RECURSIVE buildRoster(_)
buildRoster(keys) ==
    IF keys = <<>> THEN <<>>
    ELSE pushBot(buildRoster(SubSeq(keys, 1, Len(keys) - 1)), keys[Len(keys)])

(* the environment of the monitored deployment: bot1 and bot2, both valid *)
deployedEnv ==
    [keys |-> <<[n |-> 1, valid |-> TRUE], [n |-> 2, valid |-> TRUE]>>,
     next |-> 3]

(* The outcomes of simpleRequest: resolved with {statusCode, duration}, or
   rejected (bad-url, a transport error, or the timeout after
   REQUEST_TIMEOUT_MS; the callers' catch tells none of them apart) *)
simpleRequest ==
    [resolved : {TRUE}, statusCode : StatusCodes, duration : Durations]
    \cup [resolved : {FALSE}, statusCode : {0},
          duration : {REQUEST_TIMEOUT_MS}]

(* The outcomes of discordApi: resolved with a body carrying an id, resolved
   with no usable body (id Null), or rejected *)
discordApi ==
    [resolved : {TRUE}, id : Ids \cup {Null}] \cup [resolved : {FALSE}, id : {Null}]

(* A string that is a proper, non-empty prefix of the id: what a write cut
   short leaves in the file. It is the id of no message (no element of Ids) *)
Prefix(id) == id + Cardinality(Ids)

(* The outcomes of fs.writeFileSync(STATUS_FILE, id), which opens the file
   with O_TRUNC and then writes: the id is written; the open fails (EISDIR,
   EACCES) and the file is as it was; the open succeeds and nothing is
   written (EFBIG, ENOSPC, the process killed before the write) and the file
   is empty; part of the id is written *)
WriteOutcomes == {"written", "notOpened", "truncated", "partial"}

(* fs.writeFileSync(STATUS_FILE, id) inside try/catch: the error of a failed
   write is swallowed *)
writeFileSync(file, id, w) ==
    CASE w = "written"   -> [exists |-> TRUE, content |-> id]
      [] w = "notOpened" -> file
      [] w = "truncated" -> [exists |-> TRUE, content |-> Null]
      [] w = "partial"   -> [exists |-> TRUE, content |-> Prefix(id)]

(* Startup load of the id, lines 358-363: existsSync, readFileSync(...).trim(),
   if (saved), inside try/catch. read: readFileSync succeeds; when it fails
   (EACCES, EMFILE) the catch of line 362 leaves the id null *)
loadStatusMessageId(file, read) ==
    IF file.exists /\ read /\ file.content # Null THEN file.content ELSE Null

----------------------------------------------------------------------------
(* checkBot, lines 550-592 *)

(* line 556: a response counts as up iff 200 <= statusCode < 400 *)
isUp(r) == r.resolved /\ r.statusCode >= 200 /\ r.statusCode < 400

(* lines 557, 560: bot.lastPingMs = r.duration || 0, and 0 in the catch *)
lastPingMs(r) == IF r.resolved THEN r.duration ELSE 0

\* fault variant: the success branch leaves lastDeployAt
markUp_keepsDeployAt(bot) ==
    [bot EXCEPT !.status = "up", !.failCount = 0]

(* lines 565-570: the probe succeeded *)
markUp(bot) ==
    [bot EXCEPT !.status = "up", !.failCount = 0, !.lastDeployAt = 0]

\* fault variant: > in place of >=
graceOver_strict(bot, now) ==
    now - bot.lastDeployAt > RECHECK_AFTER_DEPLOY_MS

(* line 573: the grace window since the deploy is over *)
graceOver(bot, now) == now - bot.lastDeployAt >= RECHECK_AFTER_DEPLOY_MS

(* lines 572-577: a failed probe of a record in deploying *)
whileDeploying(bot, now) ==
    IF graceOver(bot, now) THEN [bot EXCEPT !.status = "adminClosed"] ELSE bot

(* lines 581-586: a failed probe below the threshold *)
markDown(bot) ==
    [bot EXCEPT !.failCount = bot.failCount + 1, !.status = "down"]

\* fault variant: failCount is not reset (line 589 missing)
markDeploying_keepsCount(bot, now) ==
    [bot EXCEPT !.lastDeployAt = now, !.failCount = bot.failCount + 1,
                !.status = "deploying"]

\* fault variant: lastDeployAt is not set
markDeploying_noStamp(bot, now) ==
    [bot EXCEPT !.failCount = 0, !.status = "deploying"]

(* lines 588-590: the record enters deploying *)
markDeploying(bot, now) ==
    [bot EXCEPT !.lastDeployAt = now, !.failCount = 0, !.status = "deploying"]

\* fault variant: deploy one failure later
reachesDeploy_late(bot) ==
    /\ bot.status \notin {"deploying", "adminClosed"}
    /\ bot.failCount + 1 > FAIL_THRESHOLD

(* lines 579-591: the failed probe reaches the call of deploy *)
reachesDeploy(bot) ==
    /\ bot.status \notin {"deploying", "adminClosed"}
    /\ ~(bot.failCount + 1 < FAIL_THRESHOLD)

\* fault variant: the deploying branch (lines 572-577) is missing
checkBot_redeploys(bot, r, now) ==
    LET b == [bot EXCEPT !.lastPingMs = lastPingMs(r)]
    IN  IF isUp(r) THEN [bot |-> markUp(b), deploy |-> FALSE]
        ELSE IF b.status = "adminClosed" THEN [bot |-> b, deploy |-> FALSE]
        ELSE IF reachesDeploy(b)
             THEN [bot |-> markDeploying(b, now), deploy |-> TRUE]
        ELSE [bot |-> markDown(b), deploy |-> FALSE]

(* lines 554-591 of checkBot, resumed with the outcome r of the probe: the
   record it leaves, and whether it goes on to call deploy *)
checkBot(bot, r, now) ==
    LET b == [bot EXCEPT !.lastPingMs = lastPingMs(r)]
    IN  IF isUp(r) THEN [bot |-> markUp(b), deploy |-> FALSE]
        ELSE IF b.status = "deploying"
             THEN [bot |-> whileDeploying(b, now), deploy |-> FALSE]
        ELSE IF b.status = "adminClosed" THEN [bot |-> b, deploy |-> FALSE]
        ELSE IF reachesDeploy(b)
             THEN [bot |-> markDeploying(b, now), deploy |-> TRUE]
        ELSE [bot |-> markDown(b), deploy |-> FALSE]

----------------------------------------------------------------------------
(* checkAll, lines 594-613 *)

\* fault variant: no re-entrancy test
guard_absent == FALSE

(* line 595: the guard that makes a call of checkAll return at once *)
guard == checking

(* lines 596-602: the frame of a call that passed the guard at time c; it
   has entered checkBot for the first record *)
newFrame(c) ==
    [pc |-> "probe", i |-> 1, now |-> c, t0 |-> c, checked |-> <<1>>,
     deployed |-> <<>>, logged |-> <<>>, published |-> 0, sent |-> 0]

\* fault variant: checkBot is called with Date.now() instead of now
advance_freshNow(f, B, gs) ==
    IF f.i < NBots
    THEN [f |-> [f EXCEPT !.i = f.i + 1, !.pc = "probe",
                          !.checked = Append(f.checked, f.i + 1)],
          B |-> [B EXCEPT ![f.i + 1].lastCheckAt = clock]]
    ELSE [f |-> [f EXCEPT !.pc = IF gs = Null THEN "send" ELSE "edit",
                          !.published = f.published + 1,
                          !.sent = IF gs = Null THEN 1 ELSE 0],
          B |-> B]

\* fault variant: the loop stops one record early
advance_earlyPublish(f, B, gs) ==
    IF f.i + 1 < NBots
    THEN [f |-> [f EXCEPT !.i = f.i + 1, !.pc = "probe",
                          !.checked = Append(f.checked, f.i + 1)],
          B |-> [B EXCEPT ![f.i + 1].lastCheckAt = f.now]]
    ELSE [f |-> [f EXCEPT !.pc = IF gs = Null THEN "send" ELSE "edit",
                          !.published = f.published + 1,
                          !.sent = IF gs = Null THEN 1 ELSE 0],
          B |-> B]

\* fault variant: a record that is not up ends the loop
advance_abortOnFailure(f, B, gs) ==
    IF f.i < NBots /\ B[f.i].status = "up"
    THEN [f |-> [f EXCEPT !.i = f.i + 1, !.pc = "probe",
                          !.checked = Append(f.checked, f.i + 1)],
          B |-> [B EXCEPT ![f.i + 1].lastCheckAt = f.now]]
    ELSE [f |-> [f EXCEPT !.pc = IF gs = Null THEN "send" ELSE "edit",
                          !.published = f.published + 1,
                          !.sent = IF gs = Null THEN 1 ELSE 0],
          B |-> B]

(* lines 601-605 and 519-530: checkBot returned for record f.i; the loop
   enters checkBot for the next record (line 551), or the loop is over and
   updateStatus issues its first request *)
advance(f, B, gs) ==
    IF f.i < NBots
    THEN [f |-> [f EXCEPT !.i = f.i + 1, !.pc = "probe",
                          !.checked = Append(f.checked, f.i + 1)],
          B |-> [B EXCEPT ![f.i + 1].lastCheckAt = f.now]]
    ELSE [f |-> [f EXCEPT !.pc = IF gs = Null THEN "send" ELSE "edit",
                          !.published = f.published + 1,
                          !.sent = IF gs = Null THEN 1 ELSE 0],
          B |-> B]

Remove(s, k) == SubSeq(s, 1, k - 1) \o SubSeq(s, k + 1, Len(s))

(* a call of checkAll at time c *)
checkAll(c) ==
    IF guard
    THEN /\ UNCHANGED <<BOTS, checking, frames>>
         /\ ev' = [op |-> "checkAll", entered |-> FALSE]
    ELSE /\ checking' = TRUE
         /\ frames' = Append(frames, newFrame(c))
         /\ BOTS' = [BOTS EXCEPT ![1].lastCheckAt = c]
         /\ ev' = [op |-> "checkAll", entered |-> TRUE]

(* lines 606-612: updateStatus returned, leaving the id gs in memory; the
   invocation clears the flag and ends.  (globalState.lastLoopMs, which it
   also sets, is read by the report and the status endpoint only.) *)
finish(k, gs) ==
    /\ statusMessageId' = gs
    /\ checking' = FALSE
    /\ frames' = Remove(frames, k)

(* the rejection of sendStatusMessage leaves updateStatus (lines 522, 532)
   and checkAll (line 605, no try around it): the invocation ends there *)
throw(k) ==
    /\ frames' = Remove(frames, k)
    /\ UNCHANGED <<statusMessageId, checking>>

----------------------------------------------------------------------------
Init ==
    /\ env = deployedEnv
    /\ BOTS = buildRoster(env.keys)
    /\ remediated = [b \in BotIds |-> 0]
    /\ checking = FALSE
    /\ statusFile \in {[exists |-> FALSE, content |-> Null],
                       [exists |-> TRUE, content |-> Null]}
    /\ stored = Null
    /\ statusMessageId \in {loadStatusMessageId(statusFile, read) : read \in BOOLEAN}
    /\ clock = CHECK_EVERY_MS
    /\ booted = FALSE
    /\ frames = <<>>
    /\ ev = [op |-> "boot"]
    /\ ticks = 0
    /\ restarts = 0

(* startLoop, line 616: the first call of checkAll *)
StartLoop ==
    /\ ~booted
    /\ booted' = TRUE
    /\ checkAll(clock)
    /\ UNCHANGED <<env, statusMessageId, statusFile, stored, remediated, clock,
                   ticks, restarts>>

(* line 617: the interval timer calls checkAll *)
TimerTick(d) ==
    /\ booted
    /\ ticks < MaxTicks
    /\ ticks' = ticks + 1
    /\ clock' = clock + d * CHECK_EVERY_MS
    /\ checkAll(clock')
    /\ UNCHANGED <<env, statusMessageId, statusFile, stored, remediated,
                   booted, restarts>>

(* the probe of record frames[k].i ends with outcome r *)
ProbeDone(k, r) ==
    /\ frames[k].pc = "probe"
    /\ LET f == frames[k]
           res == checkBot(BOTS[f.i], r, f.now)
           B1 == [BOTS EXCEPT ![f.i] = res.bot]
           a == advance(f, B1, statusMessageId)
       IN  /\ IF res.deploy
              THEN /\ BOTS' = B1
                   /\ frames' = [frames EXCEPT ![k] =
                          [f EXCEPT !.pc = "deploy",
                                    !.deployed = Append(f.deployed, f.i)]]
              ELSE /\ BOTS' = a.B
                   /\ frames' = [frames EXCEPT ![k] = a.f]
           /\ ev' = [op |-> "checkBot", k |-> k, bot |-> f.i, r |-> r,
                     prev |-> [status |-> BOTS[f.i].status,
                               failCount |-> BOTS[f.i].failCount,
                               lastDeployAt |-> BOTS[f.i].lastDeployAt]]
           /\ remediated' = [remediated EXCEPT ![f.i] =
                  IF res.deploy THEN @ + 1 ELSE IF isUp(r) THEN 0 ELSE @]
    /\ UNCHANGED <<env, checking, statusMessageId, statusFile, stored, clock,
                   booted, ticks, restarts>>

\* fault variant: no try/catch in deploy
deploy_noCatch(r) == [log |-> r.resolved, threw |-> ~r.resolved]

(* deploy, lines 541-547, resumed with the outcome r of the request to
   deployUrl: whether it goes on to sendLog, and whether it throws to its
   caller (the catch of line 547 takes every rejection) *)
deploy(r) == [log |-> r.resolved, threw |-> FALSE]

(* deploy, lines 540-548: the request to deployUrl ends with outcome r; a
   completed request goes on to sendLog, a failed one to the empty catch.
   (An error thrown by deploy would leave checkBot and be taken by the catch
   of line 602, and the loop would go on.) *)
DeployDone(k, r) ==
    /\ frames[k].pc = "deploy"
    /\ LET f == frames[k]
           a == advance(f, BOTS, statusMessageId)
       IN  /\ IF deploy(r).log
              THEN /\ BOTS' = BOTS
                   /\ frames' = [frames EXCEPT ![k] =
                          [f EXCEPT !.pc = "log",
                                    !.logged = Append(f.logged, f.i)]]
              ELSE /\ BOTS' = a.B
                   /\ frames' = [frames EXCEPT ![k] = a.f]
           /\ ev' = [op |-> "deploy", k |-> k, bot |-> f.i,
                     resolved |-> r.resolved, threw |-> deploy(r).threw]
    /\ UNCHANGED <<env, checking, statusMessageId, statusFile, stored,
                   remediated, clock, booted, ticks, restarts>>

(* sendLog, lines 450-458: the log request ends; its error is swallowed *)
LogDone(k, d) ==
    /\ frames[k].pc = "log"
    /\ LET a == advance(frames[k], BOTS, statusMessageId)
       IN  /\ BOTS' = a.B
           /\ frames' = [frames EXCEPT ![k] = a.f]
    /\ ev' = [op |-> "sendLog", k |-> k, bot |-> frames[k].i,
              resolved |-> d.resolved]
    /\ UNCHANGED <<env, checking, statusMessageId, statusFile, stored,
                   remediated, clock, booted, ticks, restarts>>

----------------------------------------------------------------------------
(* updateStatus, lines 519-538 *)

(* line 439: res?.id || null *)
sendStatusMessage(d) == IF d.resolved /\ d.id # Null THEN d.id ELSE Null

\* fault variant: the id is assigned without the if (id) test
keepId_always(gs, id) == id

(* lines 523-526 and 533-536: if (id) keep it in memory *)
keepId(gs, id) == IF id # Null THEN id ELSE gs

(* lines 525, 535: if (id) write it to the file; w: the outcome of the write *)
persistId(file, id, w) == IF id # Null THEN writeFileSync(file, id, w) ELSE file

(* lines 529-532: editStatusMessage ends; a rejected edit goes to the catch,
   which sends a new message *)
EditDone(k, d) ==
    /\ frames[k].pc = "edit"
    /\ IF d.resolved
       THEN finish(k, statusMessageId)
       ELSE /\ frames' = [frames EXCEPT ![k] =
                   [frames[k] EXCEPT !.pc = "resend", !.sent = @ + 1]]
            /\ UNCHANGED <<statusMessageId, checking>>
    /\ ev' = [op |-> "edit", k |-> k, resolved |-> d.resolved]
    /\ UNCHANGED <<env, BOTS, statusFile, stored, remediated, clock, booted,
                   ticks, restarts>>

(* lines 522-527 and 532-536: sendStatusMessage ends *)
SendDone(k, d, w) ==
    /\ frames[k].pc \in {"send", "resend"}
    /\ IF d.resolved
       THEN LET id == sendStatusMessage(d)
            IN  /\ finish(k, keepId(statusMessageId, id))
                /\ statusFile' = persistId(statusFile, id, w)
                /\ stored' = IF id # Null /\ w = "written" THEN id ELSE stored
       ELSE /\ throw(k)
            /\ UNCHANGED <<statusFile, stored>>
    /\ ev' = [op |-> "send", k |-> k, d |-> d,
              w |-> IF sendStatusMessage(d) # Null THEN w ELSE "noWrite",
              from |-> frames[k].pc, before |-> statusMessageId]
    /\ UNCHANGED <<env, BOTS, remediated, clock, booted, ticks, restarts>>

----------------------------------------------------------------------------
(* The process is restarted: lines 340-363 run again over the same file,
   which they read or fail to read; every suspended invocation is gone *)
Restart(read) ==
    /\ restarts < MaxRestarts
    /\ restarts' = restarts + 1
    /\ BOTS' = buildRoster(env.keys)
    /\ remediated' = [b \in BotIds |-> 0]
    /\ checking' = FALSE
    /\ statusMessageId' = loadStatusMessageId(statusFile, read)
    /\ booted' = FALSE
    /\ frames' = <<>>
    /\ ev' = [op |-> "restart"]
    /\ UNCHANGED <<env, statusFile, stored, clock, ticks>>

Next ==
    \/ StartLoop
    \/ \E d \in TickDelays : TimerTick(d)
    \/ \E k \in DOMAIN frames : \E r \in simpleRequest : ProbeDone(k, r)
    \/ \E k \in DOMAIN frames : \E r \in simpleRequest : DeployDone(k, r)
    \/ \E k \in DOMAIN frames : \E d \in discordApi : LogDone(k, d)
    \/ \E k \in DOMAIN frames : \E d \in discordApi : EditDone(k, d)
    \/ \E k \in DOMAIN frames : \E d \in discordApi :
           \E w \in WriteOutcomes : SendDone(k, d, w)
    \/ \E read \in BOOLEAN : Restart(read)

Spec == Init /\ [][Next]_vars

----------------------------------------------------------------------------
(* The startup loop of lines 340-346 over any environment: up to three
   bot<N> entries, in any order, each valid or malformed *)
EnvKeys == {1, 2, 3}
EnvEntries == [n : EnvKeys, valid : BOOLEAN]
EnvOrders ==
    {s \in UNION {[1..m -> EnvEntries] : m \in 0..Cardinality(EnvKeys)} :
        \A i, j \in DOMAIN s : i # j => s[i].n # s[j].n}

RosterInit ==
    /\ env \in [keys : EnvOrders, next : {1}]
    /\ BOTS = <<>>
    /\ remediated = [b \in BotIds |-> 0]
    /\ checking = FALSE
    /\ statusFile = [exists |-> FALSE, content |-> Null]
    /\ stored = Null
    /\ statusMessageId = Null
    /\ clock = CHECK_EVERY_MS
    /\ booted = FALSE
    /\ frames = <<>>
    /\ ev = [op |-> "boot"]
    /\ ticks = 0
    /\ restarts = 0

(* lines 341-346: one iteration of the for loop *)
ReadKey ==
    /\ env.next <= Len(env.keys)
    /\ BOTS' = pushBot(BOTS, env.keys[env.next])
    /\ env' = [env EXCEPT !.next = @ + 1]
    /\ ev' = [op |-> "readKey"]
    /\ UNCHANGED <<checking, statusMessageId, statusFile, stored, remediated,
                   clock, booted, frames, ticks, restarts>>

RosterNext == ReadKey

RosterSpec == RosterInit /\ [][RosterNext]_vars

----------------------------------------------------------------------------
(* Vocabulary of the claims *)

\* the probe is judged a success: a response with a code in 200..399
ProbeOk(r) == r.resolved /\ r.statusCode \in 200..399

\* the state is the one a resumed checkBot left
Checked == ev.op = "checkBot"

\* how often bot b occurs in the sequence s
Count(s, b) == Cardinality({j \in DOMAIN s : s[j] = b})

\* the roster in its order
Roster == [j \in 1..NBots |-> j]

PublishPcs == {"send", "edit", "resend"}

----------------------------------------------------------------------------
\* C1: whatever the status before, a record whose probe succeeds ends with
\* status up, failCount 0 and lastDeployAt 0; so a record in adminClosed
\* goes to up on its first successful probe.
C1_SuccessResets ==
    (Checked /\ ProbeOk(ev.r)) =>
        /\ BOTS[ev.bot].status = "up"
        /\ BOTS[ev.bot].failCount = 0
        /\ BOTS[ev.bot].lastDeployAt = 0

C1_Witness ==
    /\ Checked /\ ProbeOk(ev.r)
    /\ ev.prev.status = "adminClosed" /\ ev.prev.lastDeployAt # 0
    /\ BOTS[ev.bot].status = "up"

----------------------------------------------------------------------------
\* C2: a record in up or unknown whose probe fails becomes down with
\* failCount 1 and deploy is not called; when the next probe of that record
\* (now down) fails too it becomes deploying with lastDeployAt = the sweep's
\* now and failCount 0, and deploy is called once for it in that sweep; no
\* sweep calls deploy twice for a record.
C2_FailTwiceDeploys ==
    /\ \A k \in DOMAIN frames : \A b \in BotIds :
           Count(frames[k].deployed, b) <= 1
    /\ (Checked /\ ~ProbeOk(ev.r) /\ ev.prev.status \in {"up", "unknown"}) =>
           /\ BOTS[ev.bot].status = "down"
           /\ BOTS[ev.bot].failCount = 1
           /\ Count(frames[ev.k].deployed, ev.bot) = 0
           /\ frames[ev.k].pc # "deploy"
    /\ (Checked /\ ~ProbeOk(ev.r) /\ ev.prev.status = "down") =>
           /\ BOTS[ev.bot].status = "deploying"
           /\ BOTS[ev.bot].lastDeployAt = frames[ev.k].now
           /\ BOTS[ev.bot].failCount = 0
           /\ Count(frames[ev.k].deployed, ev.bot) = 1
           /\ frames[ev.k].pc = "deploy"

C2_Witness ==
    /\ Checked /\ ~ProbeOk(ev.r)
    /\ ev.prev.status = "down" /\ ev.prev.failCount = 1
    /\ BOTS[ev.bot].status = "deploying"
    /\ frames[ev.k].pc = "deploy"
    /\ frames[ev.k].now < clock

----------------------------------------------------------------------------
\* C3: a failed probe of a record in deploying leaves it deploying while
\* now - lastDeployAt is under 10 minutes and makes it adminClosed from 10
\* minutes on; a failed probe of a record in adminClosed leaves the record
\* as it was and calls no deploy; and a record in adminClosed leaves that
\* status only in a step that is a successful probe of it.
C3_Inv ==
    /\ (Checked /\ ~ProbeOk(ev.r) /\ ev.prev.status = "deploying") =>
           /\ BOTS[ev.bot].status =
                  IF frames[ev.k].now - ev.prev.lastDeployAt < 10 * 60 * 1000
                  THEN "deploying" ELSE "adminClosed"
           /\ BOTS[ev.bot].lastDeployAt = ev.prev.lastDeployAt
           /\ frames[ev.k].pc # "deploy"
    /\ (Checked /\ ~ProbeOk(ev.r) /\ ev.prev.status = "adminClosed") =>
           /\ BOTS[ev.bot].status = "adminClosed"
           /\ BOTS[ev.bot].lastDeployAt = ev.prev.lastDeployAt
           /\ BOTS[ev.bot].failCount = ev.prev.failCount
           /\ frames[ev.k].pc # "deploy"
           /\ Count(frames[ev.k].deployed, ev.bot) = 0

C3_Step ==
    \A b \in BotIds :
        (BOTS[b].status = "adminClosed" /\ BOTS'[b].status # "adminClosed"
         /\ ev'.op # "restart") =>
            /\ ev'.op = "checkBot" /\ ev'.bot = b /\ ProbeOk(ev'.r)
            /\ BOTS'[b].status = "up"

C3_GraceThenClosed == []C3_Inv /\ [][C3_Step]_vars

\* a record closed at the 10 minutes exactly has failed one more probe
C3_Witness ==
    /\ Checked /\ ~ProbeOk(ev.r)
    /\ ev.prev.status = "adminClosed"
    /\ BOTS[ev.bot].status = "adminClosed"
    /\ BOTS[ev.bot].lastCheckAt - BOTS[ev.bot].lastDeployAt
           = 10 * 60 * 1000 + CHECK_EVERY_MS

----------------------------------------------------------------------------
\* C4: at most one invocation of checkAll is in progress at any time, and a
\* call of checkAll made while one is in progress changes no record, no
\* report state, no file, and starts nothing (no probe, no publish).
C4_Step ==
    (vars' # vars /\ ev'.op = "checkAll" /\ frames # <<>>) =>
        /\ ~ev'.entered
        /\ UNCHANGED <<BOTS, checking, statusMessageId, statusFile, frames>>

C4_OneSweep == [](Len(frames) <= 1) /\ [][C4_Step]_vars

C4_Witness ==
    /\ ev.op = "checkAll" /\ ~ev.entered
    /\ Len(frames) = 1 /\ frames[1].pc = "probe" /\ frames[1].i = 2
    /\ frames[1].now < clock

----------------------------------------------------------------------------
\* C5: whenever no invocation of checkAll is in progress the flag checking
\* is clear (every way a sweep ends clears it), so the next timer callback
\* starts a sweep.
C5_FlagCleared == (frames = <<>>) => ~checking

----------------------------------------------------------------------------
\* the step is the end of a sendStatusMessage / of an editStatusMessage
SendStep == vars' # vars /\ ev'.op = "send"
EditStep == vars' # vars /\ ev'.op = "edit"
FileWith(id) == [exists |-> TRUE, content |-> id]

\* updateStatus sends first iff no id is in memory, and edits otherwise; it
\* sends again only after a failed edit
PublishEntry ==
    \A k \in DOMAIN frames :
        /\ frames[k].pc = "send" => (statusMessageId = Null /\ frames[k].sent = 1)
        /\ frames[k].pc = "edit" => (statusMessageId # Null /\ frames[k].sent = 0)
        /\ frames[k].pc = "resend" => (statusMessageId # Null /\ frames[k].sent = 1)

\* a successful edit sends nothing and changes neither id; a failed edit
\* goes on to one send
EditCases ==
    /\ (EditStep /\ ev'.resolved) =>
           /\ UNCHANGED <<statusMessageId, statusFile>>
           /\ frames[ev'.k].sent = 0
           /\ frames' = Remove(frames, ev'.k)
    /\ (EditStep /\ ~ev'.resolved) =>
           /\ UNCHANGED <<statusMessageId, statusFile>>
           /\ frames'[ev'.k].pc = "resend"

\* C6 as stated: with no id in memory, and after a failed edit, the send
\* returns an id that is then the id in memory and the content of the file;
\* a successful edit sends nothing and changes neither.
C6_SendStores ==
    SendStep =>
        /\ ev'.d.resolved /\ ev'.d.id \in Ids
        /\ statusMessageId' = ev'.d.id
        /\ statusFile' = FileWith(ev'.d.id)

C6_Original == []PublishEntry /\ [][EditCases /\ C6_SendStores]_vars

\* C6 amended: the id is stored only if the send returns one: it is then
\* the id in memory, and the content of the file if the write succeeds (the
\* error of a failed write is swallowed and the sweep ends as after a
\* successful one); a send that returns no id or is rejected changes
\* neither the id in memory nor the file.
C6_SendStoresIfId ==
    SendStep =>
        IF ev'.d.resolved /\ ev'.d.id \in Ids
        THEN /\ statusMessageId' = ev'.d.id
             /\ ev'.w = "written" => statusFile' = FileWith(ev'.d.id)
             /\ frames' = Remove(frames, ev'.k) /\ ~checking'
        ELSE UNCHANGED <<statusMessageId, statusFile>>

C6_Amended == []PublishEntry /\ [][EditCases /\ C6_SendStoresIfId]_vars

\* the edit failed, and the new report's id replaced the old one in memory
\* and in the file
C6_Witness ==
    /\ ev.op = "send" /\ ev.from = "resend"
    /\ ev.before \in Ids /\ ev.d.id \in Ids /\ ev.before # ev.d.id
    /\ statusMessageId = ev.d.id /\ statusFile = FileWith(ev.d.id)

----------------------------------------------------------------------------
\* C7 as stated: lastDeployAt is nonzero exactly when the status is
\* deploying.
C7_Original ==
    \A b \in BotIds :
        (BOTS[b].lastDeployAt # 0) <=> (BOTS[b].status = "deploying")

\* C7 amended: lastDeployAt is nonzero exactly when the status is deploying
\* or adminClosed (the step into adminClosed keeps the deploy time); it is 0
\* in unknown, up and down.
C7_Amended ==
    \A b \in BotIds :
        (BOTS[b].lastDeployAt # 0)
            <=> (BOTS[b].status \in {"deploying", "adminClosed"})

C7_Witness ==
    \E b \in BotIds :
        /\ BOTS[b].status = "adminClosed" /\ BOTS[b].lastDeployAt # 0
        /\ \E c \in BotIds : BOTS[c].status = "down" /\ BOTS[c].lastDeployAt = 0

----------------------------------------------------------------------------
\* C8: an invocation of checkAll is in updateStatus at most once, and only
\* with every record of the roster checked in this sweep; it ends only from
\* there, so a sweep that ends has published exactly once.
C8_Inv ==
    \A k \in DOMAIN frames :
        /\ frames[k].published = IF frames[k].pc \in PublishPcs THEN 1 ELSE 0
        /\ frames[k].pc \in PublishPcs =>
               /\ frames[k].checked = Roster
               /\ \A b \in BotIds : /\ BOTS[b].lastCheckAt = frames[k].now
                                    /\ BOTS[b].status # "unknown"

C8_Step ==
    (Len(frames') < Len(frames) /\ ev'.op # "restart") =>
        /\ ev'.op \in {"send", "edit"}
        /\ frames[ev'.k].published = 1

C8_PublishOnceAfterAll == []C8_Inv /\ [][C8_Step]_vars

C8_Witness ==
    /\ ev.op = "edit" /\ ev.resolved /\ frames = <<>>
    /\ \A b \in BotIds : BOTS[b].lastCheckAt = clock /\ BOTS[b].status # "unknown"

----------------------------------------------------------------------------
\* C9: a sweep enters checkBot for the records in roster order, each once:
\* whatever the outcome of a probe, of a deploy request or of its log, the
\* invocation goes on, either within the same record or to the next record
\* (to updateStatus after the last), and touches no other record.
C9_Inv ==
    \A k \in DOMAIN frames :
        /\ frames[k].i \in BotIds
        /\ frames[k].checked = [j \in 1..frames[k].i |-> j]
        /\ frames[k].pc \in PublishPcs => frames[k].i = NBots

C9_Step ==
    (vars' # vars /\ ev'.op \in {"checkBot", "deploy", "sendLog"}) =>
        LET f == frames[ev'.k]
            g == frames'[ev'.k]
        IN  /\ Len(frames') = Len(frames)
            /\ \/ g.i = f.i /\ g.pc \in {"deploy", "log"}
               \/ /\ f.i < NBots /\ g.i = f.i + 1 /\ g.pc = "probe"
                  /\ BOTS'[g.i] = [BOTS[g.i] EXCEPT !.lastCheckAt = f.now]
               \/ f.i = NBots /\ g.i = f.i /\ g.pc \in PublishPcs
            /\ \A b \in BotIds \ {f.i, g.i} : BOTS'[b] = BOTS[b]

C9_EachOnceInOrder == []C9_Inv /\ [][C9_Step]_vars

\* the first record's probe failed and its deploy request failed; the
\* second record is being probed
C9_Witness ==
    /\ ev.op = "deploy" /\ ~ev.resolved /\ ev.bot = 1
    /\ Len(frames) = 1 /\ frames[1].pc = "probe" /\ frames[1].checked = Roster

----------------------------------------------------------------------------
\* C10: a restart starts with the id the last successful write stored (null
\* if none was stored), which is what the file holds; and with an id in
\* memory updateStatus begins with an edit of that report, not with a send.
C10_Inv == stored = IF statusFile.exists THEN statusFile.content ELSE Null

C10_Step ==
    /\ (vars' # vars /\ ev'.op = "restart") => statusMessageId' = stored
    /\ \A k \in DOMAIN frames :
           (k \in DOMAIN frames' /\ frames[k].published = 0
            /\ frames'[k].published = 1 /\ statusMessageId \in Ids) =>
               /\ frames'[k].pc = "edit" /\ frames'[k].sent = 0

C10_RestartKeepsReport == []C10_Inv /\ [][C10_Step]_vars

----------------------------------------------------------------------------
\* what follows the end of deploy for record f.i, whatever its outcome: the
\* probe of the next record, or updateStatus after the last one
AfterDeploy(f, g) ==
    /\ g.now = f.now /\ g.deployed = f.deployed /\ g.checked # <<>>
    /\ IF f.i < NBots
       THEN /\ g.i = f.i + 1 /\ g.pc = "probe"
            /\ BOTS' = [BOTS EXCEPT ![f.i + 1].lastCheckAt = f.now]
       ELSE /\ g.i = f.i
            /\ g.pc = IF statusMessageId = Null THEN "send" ELSE "edit"
            /\ BOTS' = BOTS

\* C11: while deploy runs for a record, and when it ends, the record stays
\* as the transition left it (deploying, lastDeployAt = now, failCount 0),
\* whatever the outcome of the deploy request and of its log; deploy throws
\* nothing to its caller; and the sweep continues with the same next step
\* after a completed and after a failed deploy request.
C11_Step ==
    (vars' # vars /\ ev'.op \in {"deploy", "sendLog"}) =>
        LET f == frames[ev'.k]
            g == frames'[ev'.k]
        IN  /\ Len(frames') = Len(frames)
            /\ BOTS'[f.i] = BOTS[f.i]
            /\ BOTS[f.i].status = "deploying"
            /\ BOTS[f.i].lastDeployAt = f.now
            /\ BOTS[f.i].failCount = 0
            /\ ev'.op = "deploy" => ~ev'.threw
            /\ IF ev'.op = "deploy" /\ ev'.resolved
               THEN g.pc = "log" /\ g.i = f.i /\ BOTS' = BOTS
               ELSE AfterDeploy(f, g)

C11_DeployOutcomeIgnored == [][C11_Step]_vars

\* the deploy request of the first record failed; the record is deploying
\* with this sweep's now and the second record is being probed
C11_Witness ==
    /\ ev.op = "deploy" /\ ~ev.resolved /\ ~ev.threw /\ ev.bot = 1
    /\ Len(frames) = 1 /\ frames[1].pc = "probe" /\ frames[1].i = 2
    /\ BOTS[1].status = "deploying" /\ BOTS[1].lastDeployAt = frames[1].now
    /\ BOTS[1].failCount = 0

----------------------------------------------------------------------------
\* C12: once deploy has ended for a record, sendLog has been called for it:
\* every call of deploy in the sweep has its log entry, after a completed
\* and after a failed request alike.
C12_EveryDeployLogs ==
    \A k \in DOMAIN frames :
        frames[k].pc # "deploy" => frames[k].logged = frames[k].deployed

----------------------------------------------------------------------------
\* C13: after a check whose probe is judged a failure (a rejection, or a
\* response with a code outside 200..399) lastPingMs is 0; a record has a
\* nonzero lastPingMs only if its last probe succeeded (its status is up).
C13_FailureZeroesPing ==
    /\ (Checked /\ ~ProbeOk(ev.r)) => BOTS[ev.bot].lastPingMs = 0
    /\ \A b \in BotIds : BOTS[b].lastPingMs # 0 => BOTS[b].status = "up"

----------------------------------------------------------------------------
\* C14: every record a sweep has entered has lastCheckAt = the now the sweep
\* captured at its start, and every record it sent to deploy has
\* lastDeployAt = that now, however far Date.now() has moved since; when the
\* sweep ends that holds of every record of the roster.
C14_Inv ==
    \A k \in DOMAIN frames :
        /\ \A b \in 1..frames[k].i : BOTS[b].lastCheckAt = frames[k].now
        /\ \A j \in DOMAIN frames[k].deployed :
               BOTS[frames[k].deployed[j]].lastDeployAt = frames[k].now

C14_Step ==
    (Len(frames') < Len(frames) /\ ev'.op # "restart") =>
        LET f == frames[ev'.k]
        IN  /\ \A b \in BotIds : BOTS'[b].lastCheckAt = f.now
            /\ \A j \in DOMAIN f.deployed :
                   /\ BOTS'[f.deployed[j]].status = "deploying"
                   /\ BOTS'[f.deployed[j]].lastDeployAt = f.now

C14_NowCapturedOnce == []C14_Inv /\ [][C14_Step]_vars

\* a sweep has ended during which the timer fired; the second record went
\* to deploying in it
C14_Witness ==
    /\ ev.op \in {"send", "edit"} /\ frames = <<>>
    /\ clock > BOTS[1].lastCheckAt
    /\ BOTS[2].lastCheckAt = BOTS[1].lastCheckAt
    /\ BOTS[1].status = "up"
    /\ BOTS[2].status = "deploying"
    /\ BOTS[2].lastDeployAt = BOTS[1].lastCheckAt

----------------------------------------------------------------------------
\* the startup loop has read every entry
RosterBuilt == env.next > Len(env.keys)

\* C15: the roster lists exactly the valid entries, in ascending order of
\* N, whatever the order of the keys in the environment.
C15_RosterAscending ==
    RosterBuilt =>
        /\ {BOTS[i].id : i \in DOMAIN BOTS}
               = {env.keys[j].n : j \in {x \in DOMAIN env.keys : env.keys[x].valid}}
        /\ \A i, j \in DOMAIN BOTS : i < j => BOTS[i].id < BOTS[j].id

----------------------------------------------------------------------------
\* C16: no record has deploy called for it twice without a successful probe
\* of it in between; in particular a failed probe of a record for which
\* deploy was called (deploying, adminClosed) calls no deploy.
C16_OncePerOutage ==
    /\ \A b \in BotIds : remediated[b] <= 1
    /\ \A b \in BotIds :
           BOTS[b].status \in {"deploying", "adminClosed"} => remediated[b] = 1

\* deploy was called once for the record; it then failed its probes through
\* deploying and adminClosed
C16_Witness ==
    /\ Checked /\ ~ProbeOk(ev.r)
    /\ ev.prev.status = "adminClosed"
    /\ BOTS[ev.bot].status = "adminClosed"
    /\ remediated[ev.bot] = 1
    /\ frames[ev.k].deployed = <<>>

----------------------------------------------------------------------------
\* C17: in every state (each is one a suspended sweep, or the status
\* endpoint, can observe) failCount is 0 or 1, and it is 1 exactly when the
\* status is down.
C17_FailCount ==
    \A b \in BotIds :
        /\ BOTS[b].failCount \in {0, 1}
        /\ BOTS[b].failCount = 1 <=> BOTS[b].status = "down"

\* mid-sweep: the first record is down, the second has just gone from down
\* to deploying and its deploy request is in flight
C17_Witness ==
    /\ Len(frames) = 1 /\ frames[1].pc = "deploy" /\ frames[1].i = 2
    /\ BOTS[1].status = "down" /\ BOTS[1].failCount = 1
    /\ BOTS[2].status = "deploying" /\ BOTS[2].failCount = 0
    /\ Checked /\ ev.prev.failCount = 1

----------------------------------------------------------------------------
\* C18: no step of a publish takes the id in memory from non-null to null;
\* the file changes only at the end of a send that returned a non-empty id,
\* and then holds that id; and when the write of such an id succeeds the
\* content of the file is the id in memory.
C18_Step ==
    /\ (statusMessageId # Null /\ ev'.op # "restart") => statusMessageId' # Null
    /\ statusFile' # statusFile =>
           /\ SendStep /\ ev'.d.resolved /\ ev'.d.id \in Ids
           /\ statusFile'.exists /\ statusFile'.content = ev'.d.id
    /\ (SendStep /\ ev'.d.resolved /\ ev'.d.id \in Ids /\ ev'.w = "written") =>
           /\ statusFile' = FileWith(ev'.d.id)
           /\ statusFile'.content = statusMessageId'

C18_IdNeverLost == [][C18_Step]_vars

====
